---- MODULE Spec2Model ----
(***************************************************************************)
(* Model of the generic vector of collections/vector.go (package vector).  *)
(* A Vector[T] is a Go slice plus a cached length and a cached capacity.   *)
(* The older revisions kept in unnamed/part_000 have the same method       *)
(* bodies (other field names, Len/Cap without the refresh, no Remove), so  *)
(* the model follows collections/vector.go.                                *)
(***************************************************************************)
EXTENDS Integers, Sequences, FiniteSets, TLC

(* ---------------------------- bounds ----------------------------------- *)

\* longest vector Append is allowed to build
MaxLen == 3
\* largest capacity handed to WithCapacity / AddCapacity
MaxCap == 2
\* largest index handed to Pop / Remove (one past MaxLen, so that an index
\* strictly greater than the length exists for every vector)
MaxIndex == 4
\* elements are the integers 1..MaxVal
MaxVal == 2

Values == 1..MaxVal

(* ---------------------------- errors ----------------------------------- *)

nilValueAccess == "Error: attempting to access nil value"
indexOutOfBounds == "Error: attempting to access invalid memory location"
\* the nil error value
NoError == "nil"
\* the zero value of T, returned next to an error
defaultValue == 0

(* ------------------------ Go slices and builtins ----------------------- *)

\* a slice value: nil or not, its elements (len) and its capacity
NilSlice == [isnil |-> TRUE, elems |-> <<>>, cap |-> 0]

len(s) == Len(s.elems)

cap(s) == s.cap

\* make([]T, 0, capacity): never nil, also for capacity 0
make(capacity) == [isnil |-> FALSE, elems |-> <<>>, cap |-> capacity]

\* capacity chosen by the runtime when an append outgrows the backing array:
\* the needed length if that is more than double, else double (below the
\* 256-element threshold; exact for word-sized elements at these sizes)
growslice(oldCap, needed) ==
    IF needed > 2 * oldCap THEN needed ELSE 2 * oldCap

\* append(s, xs...): in place while the capacity suffices, regrown otherwise;
\* appending nothing returns s itself (a nil s stays nil)
append(s, xs) ==
    IF Len(xs) = 0 THEN s
    ELSE IF len(s) + Len(xs) <= cap(s)
         THEN [s EXCEPT !.elems = @ \o xs]
         ELSE [isnil |-> FALSE,
               elems |-> s.elems \o xs,
               cap   |-> growslice(cap(s), len(s) + Len(xs))]

\* copy(dst, src): overwrites the first min(len(dst), len(src)) elements
copy(dst, src) ==
    LET n == IF len(dst) < len(src) THEN len(dst) ELSE len(src)
    IN  [dst EXCEPT !.elems =
            [i \in 1..len(dst) |-> IF i <= n THEN src.elems[i] ELSE @[i]]]

\* slices.Clip(s) = s[:len(s):len(s)]
slicesClipKeepCap(s) == s

slicesClip(s) == [s EXCEPT !.cap = len(s)]

\* slices.Reverse(s): swaps s[i] and s[len-1-i] in place
slicesReverseRotate(s) ==
    [s EXCEPT !.elems = IF Len(@) = 0 THEN @ ELSE Tail(@) \o <<Head(@)>>]

slicesReverse(s) ==
    [s EXCEPT !.elems = [i \in 1..Len(@) |-> @[Len(@) + 1 - i]]]

(* ------------------------------ Vector --------------------------------- *)

\* the zero value Vector[T]{}: no backing storage
ZeroValue == [__slice |-> NilSlice, __len |-> 0, __cap |-> 0]

\* receivers are pointers: the nil pointer, or a pointer to a vector
NullPtr == [null |-> TRUE, deref |-> ZeroValue]

Ptr(v) == [null |-> FALSE, deref |-> v]

\* what a call gives back: the receiver afterwards, the returned value and
\* error, and whether the call panicked instead of returning
Ret(this, val, err) == [this |-> this, val |-> val, err |-> err, panic |-> FALSE]

Panicked(this) == [this |-> this, val |-> defaultValue, err |-> NoError, panic |-> TRUE]

updateStatusLenOnly(this) ==
    IF this.null \/ this.deref.__slice.isnil
    THEN this
    ELSE Ptr([this.deref EXCEPT !.__len = len(this.deref.__slice)])

updateStatus(this) ==
    IF this.null \/ this.deref.__slice.isnil
    THEN this
    ELSE Ptr([this.deref EXCEPT !.__len = len(this.deref.__slice),
                                !.__cap = cap(this.deref.__slice)])

WithCapacity(capacity) ==
    [__slice |-> make(capacity), __len |-> 0, __cap |-> capacity]

New == WithCapacity(0)

AddCapacity(this, capacity) ==
    IF this.null THEN Ret(this, defaultValue, nilValueAccess)
    ELSE IF this.deref.__slice.isnil
    THEN Ret(Ptr(WithCapacity(capacity)), defaultValue, NoError)
    ELSE LET \* var safeCopy []T; copy(safeCopy, this.__slice) copies
             \* min(0, len) elements into the nil slice
             safeCopy == copy(NilSlice, this.deref.__slice)
             fresh    == WithCapacity(cap(safeCopy) + capacity)
             filled   == [fresh EXCEPT !.__slice = append(@, safeCopy.elems)]
         IN  Ret(updateStatus(Ptr(filled)), defaultValue, NoError)

ClearKeepCap(this) ==
    IF this.null THEN Ret(this, defaultValue, NoError)
    ELSE Ret(Ptr([this.deref EXCEPT !.__slice.elems = <<>>, !.__len = 0]),
             defaultValue, NoError)

Clear(this) ==
    IF this.null THEN Ret(this, defaultValue, NoError)
    ELSE Ret(updateStatus(Ptr(New)), defaultValue, NoError)

Strip(this) ==
    IF this.null \/ this.deref.__slice.isnil
    THEN Ret(this, defaultValue, NoError)
    ELSE Ret(updateStatus(Ptr([this.deref EXCEPT !.__slice = slicesClip(@)])),
             defaultValue, NoError)

Reverse(this) ==
    IF this.null \/ this.deref.__slice.isnil
    THEN Ret(this, defaultValue, nilValueAccess)
    ELSE Ret(Ptr([this.deref EXCEPT !.__slice = slicesReverse(@)]),
             defaultValue, NoError)

VectorAppendFront(this, element) ==
    IF this.null THEN Ret(this, defaultValue, nilValueAccess)
    ELSE LET init == IF this.deref.__slice.isnil THEN New ELSE this.deref
             grown == append(init.__slice, <<element>>)
         IN  Ret(updateStatus(Ptr([init EXCEPT !.__slice =
                     [grown EXCEPT !.elems = <<element>> \o init.__slice.elems]])),
                 defaultValue, NoError)

\* Append(element)
VectorAppend(this, element) ==
    IF this.null THEN Ret(this, defaultValue, nilValueAccess)
    ELSE LET init == IF this.deref.__slice.isnil THEN New ELSE this.deref
         IN  Ret(updateStatus(Ptr([init EXCEPT !.__slice = append(@, <<element>>)])),
                 defaultValue, NoError)

\* the statements of Pop after its two early returns
PopBody(this, index) ==
    LET s == this.deref.__slice
    IN  \* this.__slice[index] panics unless index < len
        IF index >= len(s) THEN Panicked(this)
        \* make([]T, 0, this.__cap-1): the uint64 0-1 wraps, make panics
        ELSE IF this.deref.__cap = 0 THEN Panicked(this)
        ELSE LET value     == s.elems[index + 1]
                 leftSide  == SubSeq(s.elems, 1, index)
                 rightSide == SubSeq(s.elems, index + 2, len(s))
                 safeCopy  == append(append(make(this.deref.__cap - 1), leftSide),
                                     rightSide)
                 cleared   == Clear(this).this
                 copied    == Ptr([cleared.deref EXCEPT !.__slice = copy(@, safeCopy)])
             IN  Ret(updateStatus(copied), value, NoError)

PopNoNilCheck(this, index) ==
    IF this.null THEN Ret(this, defaultValue, nilValueAccess)
    ELSE IF this.deref.__len >= index
    THEN Ret(this, defaultValue, indexOutOfBounds)
    ELSE PopBody(this, index)

Pop(this, index) ==
    IF this.null \/ this.deref.__slice.isnil
    THEN Ret(this, defaultValue, nilValueAccess)
    ELSE IF this.deref.__len >= index
    THEN Ret(this, defaultValue, indexOutOfBounds)
    ELSE PopBody(this, index)

\* Remove returns nothing: val and err of the result stay at their zero
Remove(this, index) ==
    LET r == Pop(this, index)
    IN  IF r.panic THEN Panicked(r.this)
        ELSE IF r.err # NoError THEN Ret(r.this, defaultValue, NoError)
        ELSE Ret(updateStatus(r.this), defaultValue, NoError)

\* Len()
VectorLen(this) ==
    IF this.null \/ this.deref.__slice.isnil
    THEN Ret(this, 0, NoError)
    ELSE LET u == updateStatus(this) IN Ret(u, u.deref.__len, NoError)

\* Cap()
VectorCap(this) ==
    IF this.null \/ this.deref.__slice.isnil
    THEN Ret(this, 0, NoError)
    ELSE LET u == updateStatus(this) IN Ret(u, u.deref.__cap, NoError)

(* ------------------------------ state ---------------------------------- *)

VARIABLES
    vec,          \* the Vector[T] value the caller holds
    last,         \* the most recent call: operation, receiver, argument,
                  \* what it gave back and the vector before it
    prev,         \* the call before that
    appended,     \* the elements handed to Append since construction,
                  \* kept while onlyAppends holds
    onlyAppends   \* TRUE while every call so far was an Append on vec

vars == <<vec, last, prev, appended, onlyAppends>>

NoCall ==
    [op |-> "init", null |-> FALSE, arg |-> 0, val |-> defaultValue,
     err |-> NoError, panic |-> FALSE, before |-> ZeroValue]

\* a vector is a zero value, or comes from New() or WithCapacity(c)
Init ==
    /\ vec \in {ZeroValue, New} \cup {WithCapacity(c) : c \in 0..MaxCap}
    /\ last = NoCall
    /\ prev = NoCall
    /\ appended = <<>>
    /\ onlyAppends = TRUE

\* the caller invokes op on the receiver this and gets r back; a panic is
\* recovered by the caller, the vector stays as the panicking call left it
Call(op, this, arg, r) ==
    /\ vec' = IF this.null THEN vec ELSE r.this.deref
    /\ last' = [op |-> op, null |-> this.null, arg |-> arg, val |-> r.val,
                err |-> r.err, panic |-> r.panic, before |-> vec]
    /\ prev' = last

Receivers == {NullPtr, Ptr(vec)}

CallAppend ==
    \E this \in Receivers, element \in Values :
        /\ len(vec.__slice) < MaxLen
        /\ Call("Append", this, element, VectorAppend(this, element))
        /\ onlyAppends' = (onlyAppends /\ ~this.null)
        /\ appended' = IF onlyAppends' THEN Append(appended, element) ELSE <<>>

CallPop ==
    \E this \in Receivers, index \in 0..MaxIndex :
        /\ Call("Pop", this, index, Pop(this, index))
        /\ onlyAppends' = FALSE
        /\ appended' = <<>>

CallRemove ==
    \E this \in Receivers, index \in 0..MaxIndex :
        /\ Call("Remove", this, index, Remove(this, index))
        /\ onlyAppends' = FALSE
        /\ appended' = <<>>

CallAddCapacity ==
    \E this \in Receivers, capacity \in 0..MaxCap :
        /\ Call("AddCapacity", this, capacity, AddCapacity(this, capacity))
        /\ onlyAppends' = FALSE
        /\ appended' = <<>>

CallClear ==
    \E this \in Receivers :
        /\ Call("Clear", this, 0, Clear(this))
        /\ onlyAppends' = FALSE
        /\ appended' = <<>>

CallStrip ==
    \E this \in Receivers :
        /\ Call("Strip", this, 0, Strip(this))
        /\ onlyAppends' = FALSE
        /\ appended' = <<>>

CallReverse ==
    \E this \in Receivers :
        /\ Call("Reverse", this, 0, Reverse(this))
        /\ onlyAppends' = FALSE
        /\ appended' = <<>>

CallLen ==
    \E this \in Receivers :
        /\ Call("Len", this, 0, VectorLen(this))
        /\ onlyAppends' = FALSE
        /\ appended' = <<>>

CallCap ==
    \E this \in Receivers :
        /\ Call("Cap", this, 0, VectorCap(this))
        /\ onlyAppends' = FALSE
        /\ appended' = <<>>

Next ==
    \/ CallAppend
    \/ CallPop
    \/ CallRemove
    \/ CallAddCapacity
    \/ CallClear
    \/ CallStrip
    \/ CallReverse
    \/ CallLen
    \/ CallCap

Spec == Init /\ [][Next]_vars

(* --------------------------- observations ------------------------------ *)

\* what Len() and Cap() report for a vector
LenOf(v) == VectorLen(Ptr(v)).val

CapOf(v) == VectorCap(Ptr(v)).val

\* the elements of a vector, front to back
Elems(v) == v.__slice.elems

HasBacking(v) == ~v.__slice.isnil

\* the last call was op on the vector itself
Did(op) == last.op = op /\ ~last.null

TypeOK ==
    /\ vec.__slice.isnil \in BOOLEAN
    /\ Elems(vec) \in Seq(Values)
    /\ vec.__len \in Nat /\ vec.__cap \in Nat

\* s without the element at 0-based position index
RemoveAt(s, index) == SubSeq(s, 1, index) \o SubSeq(s, index + 2, Len(s))

(* ------------------------------ claims --------------------------------- *)

\* C1: on a vector with backing storage and length n >= 1, Pop(i) with
\* 0 <= i < n returns no error and the element that was at position i;
\* afterwards Len() is n-1 and the other elements remain in their order.
C1_PopRemovesElementAtIndex ==
    (Did("Pop") /\ HasBacking(last.before) /\ last.arg < LenOf(last.before)) =>
        /\ ~last.panic
        /\ last.err = NoError
        /\ last.val = Elems(last.before)[last.arg + 1]
        /\ LenOf(vec) = LenOf(last.before) - 1
        /\ Elems(vec) = RemoveAt(Elems(last.before), last.arg)

\* C2: on a vector with backing storage, Pop(index) with index >= Len()
\* returns the index-out-of-bounds error as a value, does not fault, and
\* leaves elements, length and capacity as they were.
C2_PopOutOfRangeIsAnError ==
    (Did("Pop") /\ HasBacking(last.before) /\ last.arg >= LenOf(last.before)) =>
        /\ ~last.panic
        /\ last.err = indexOutOfBounds
        /\ vec = last.before

\* C3: on a vector with backing storage, AddCapacity(extra) returns no
\* error; afterwards Cap() is the previous Cap() plus extra, Len() is
\* unchanged and the elements are the same in the same order.
C3_AddCapacityGrowsAndPreserves ==
    (Did("AddCapacity") /\ HasBacking(last.before)) =>
        /\ ~last.panic
        /\ last.err = NoError
        /\ CapOf(vec) = CapOf(last.before) + last.arg
        /\ LenOf(vec) = LenOf(last.before)
        /\ Elems(vec) = Elems(last.before)

\* C4: from New(), WithCapacity(c) or a zero value, every Append of a run of
\* n Appends returns no error, and afterwards Len() is n and the elements
\* are the appended ones in append order, also past the initial capacity.
C4_AppendsKeepOrder ==
    onlyAppends =>
        /\ LenOf(vec) = Len(appended)
        /\ Elems(vec) = appended
        /\ Did("Append") => (last.err = NoError /\ ~last.panic)

\* three Appends in a row, the third one outgrowing a capacity of 2
C4_Witness ==
    /\ onlyAppends
    /\ Did("Append")
    /\ Len(appended) = 3
    /\ CapOf(last.before) = 2

\* C5: Remove(index) never surfaces an error or fault: whenever the
\* underlying Pop fails (index >= Len(), or no backing storage) Remove
\* returns normally and leaves elements, length and capacity unchanged.
C5_RemoveNeverFaults ==
    (Did("Remove")
        /\ (~HasBacking(last.before) \/ last.arg >= LenOf(last.before))) =>
        /\ ~last.panic
        /\ vec = last.before

\* C6: on a zero-value vector without backing storage, Pop(index) for every
\* index and Reverse() return the nil-value-access error and leave the
\* vector as it was: no backing storage, Len() and Cap() both 0.
C6_NilSliceIsReported ==
    (~last.null /\ last.op \in {"Pop", "Reverse"} /\ ~HasBacking(last.before)) =>
        /\ ~last.panic
        /\ last.err = nilValueAccess
        /\ vec = last.before
        /\ ~HasBacking(vec)
        /\ LenOf(vec) = 0
        /\ CapOf(vec) = 0

\* Reverse() and then Pop(0) on a zero value
C6_Witness ==
    /\ Did("Pop")
    /\ last.arg = 0
    /\ ~HasBacking(last.before)
    /\ prev.op = "Reverse"
    /\ ~prev.null

\* C7: on a vector with backing storage, Reverse() twice in a row returns
\* no error both times and restores the original order, Len() and Cap()
\* unchanged; on length 0 and 1 a single Reverse() succeeds and changes
\* nothing.
C7_ReverseTwiceRestores ==
    /\ (Did("Reverse") /\ HasBacking(last.before)) =>
            /\ ~last.panic
            /\ last.err = NoError
            /\ LenOf(vec) = LenOf(last.before)
            /\ CapOf(vec) = CapOf(last.before)
            /\ LenOf(last.before) <= 1 => vec = last.before
    /\ (Did("Reverse") /\ prev.op = "Reverse" /\ ~prev.null
            /\ HasBacking(prev.before)) =>
            /\ prev.err = NoError
            /\ last.err = NoError
            /\ vec = prev.before

\* two Reverse() calls in a row on three elements that are no palindrome
C7_Witness ==
    /\ Did("Reverse")
    /\ prev.op = "Reverse"
    /\ ~prev.null
    /\ LenOf(vec) = 3
    /\ Elems(vec) # Elems(last.before)

\* C8: after Strip(), Len() and the elements are as before and
\* Cap() = Len(); without backing storage Strip() changes nothing.
C8_StripTightensCapacity ==
    Did("Strip") =>
        /\ ~last.panic
        /\ LenOf(vec) = LenOf(last.before)
        /\ Elems(vec) = Elems(last.before)
        /\ CapOf(vec) = LenOf(vec)
        /\ ~HasBacking(last.before) => vec = last.before

\* Strip() on a non-empty vector with spare capacity
C8_Witness ==
    /\ Did("Strip")
    /\ LenOf(last.before) >= 1
    /\ CapOf(last.before) > LenOf(last.before)

\* C9: after Clear() in any state, Len() and Cap() both return 0 and the
\* vector holds no elements, as a vector returned by New() does.
C9_ClearResets ==
    Did("Clear") =>
        /\ ~last.panic
        /\ LenOf(vec) = 0
        /\ CapOf(vec) = 0
        /\ Elems(vec) = <<>>
        /\ vec = New

\* Clear() on a non-empty vector
C9_Witness ==
    /\ Did("Clear")
    /\ LenOf(last.before) >= 2
    /\ CapOf(last.before) >= 2

\* C10: in every reachable state the cached length is the number of
\* elements of the backing slice, the cached capacity is its allocated
\* capacity, and 0 <= length <= capacity.
C10_CachedFieldsMatchSlice ==
    /\ vec.__len = len(vec.__slice)
    /\ vec.__cap = cap(vec.__slice)
    /\ 0 <= vec.__len
    /\ vec.__len <= vec.__cap

\* an Append that regrew the backing array, after at least one other call
C10_Witness ==
    /\ Did("Append")
    /\ prev.op # "init"
    /\ vec.__len = 3
    /\ vec.__cap > CapOf(last.before)

====
